---- MODULE Spec2Model ----
(***************************************************************************)
(* GcsResourceScheduler (src/ray/gcs/gcs_server/gcs_resource_scheduler.cc) *)
(* as a state machine: the cluster resource view owned by the GCS resource *)
(* manager, and one Schedule call at a time walking through its strategy   *)
(* (Spec, SpecFair); two calls sharing the view without a lock             *)
(* (SpecConcurrent); the scorer and the priority sort on their own         *)
(* (SpecScore, SpecSort).                                                  *)
(*                                                                         *)
(* Amounts are FixedPoint values, modelled as naturals.  A score is a      *)
(* double in the code; here it is the exact rational multiplied by         *)
(* ScoreScale (a common multiple of every available amount), so that sums  *)
(* and comparisons of scores are exact integer operations.  The negative   *)
(* sentinel -1. is the integer -1.                                         *)
(*                                                                         *)
(* Sequences are 1-based: the C++ index i is i + 1 here.                   *)
(***************************************************************************)
EXTENDS Integers, Sequences, FiniteSets, TLC

VARIABLES
    cluster_resources,            \* gcs_resource_manager_.GetClusterResources()
    pc,                           \* position of the Schedule call
    required_resources_list,      \* Schedule's argument, caller order
    scheduling_type,              \* Schedule's argument
    node_filter_func,             \* Schedule's argument
    candidate_nodes,              \* result of FilterCandidateNodes
    sorted_index,                 \* result of SortRequiredResources
    sorted_resources,             \* the bundles in priority order
    candidate_nodes_copy,         \* the shrinking pool of a strategy
    selected_nodes,               \* SpreadSchedule's chosen set
    result_nodes,                 \* the strategy's result_nodes
    required_resources_list_copy, \* PackSchedule's queue of (index, request)
    result,                       \* the SchedulingResult returned by Schedule
    pre_available,                \* history: cluster_resources at the start of the call
    deducted,                     \* history: successful AcquireResources calls, <<position, node>>
    released,                     \* history: ReleaseResources calls, <<position, node>>
    calls,                        \* history: which helpers the call has invoked
    required_resources,           \* LeastResourceScorer::Score argument (SpecScore)
    node_resources,               \* LeastResourceScorer::Score argument (SpecScore)
    node_score,                   \* LeastResourceScorer::Score result (SpecScore)
    suspended,                    \* the locals of a second Schedule call that is not running
    initial_view,                 \* history: cluster_resources before the first call
    interleaved                   \* history: a call was left in the middle of its loop

vars == <<cluster_resources, pc, required_resources_list, scheduling_type,
          node_filter_func, candidate_nodes, sorted_index, sorted_resources,
          candidate_nodes_copy, selected_nodes, result_nodes,
          required_resources_list_copy, result, pre_available, deducted,
          released, calls, required_resources, node_resources, node_score,
          suspended, initial_view, interleaved>>

----------------------------------------------------------------------------
(* Program constants.  PredefinedResources is the enum of scheduling_ids.h: *)
(* CPU, MEM, GPU, OBJECT_STORE_MEM, PredefinedResources_MAX (0-based there).*)

CPU == 1
MEM == 2
GPU == 3
OBJECT_STORE_MEM == 4
PredefinedResources_MAX == 4

\* NodeID::Nil(), the value of a default-constructed NodeID.
Nil == 0

----------------------------------------------------------------------------
(* Bounds of the model. *)

NumNodes == 2          \* nodes in the cluster view
MaxBundles == 3        \* bundles in one Schedule call
NumCustom == 1         \* custom resource ids known to the cluster
MaxReq == 1            \* largest sum of the amounts one bundle requests
MaxCap == 2            \* largest sum of the available amounts of one node
MaxUsed == 1           \* largest amount per dimension in use outside the call
MaxScoreLen == 2       \* SpecScore: longest predefined vector of a request or node
MaxSortWeight == 2     \* SpecSort: largest sum of the amounts one bundle requests
MaxConcurrentBundles == 2 \* SpecConcurrent, SpecFair: bundles in one call

Nodes == 1..NumNodes
CustomIds == 1..NumCustom

\* The predefined dimensions in which the nodes and bundles of Spec have
\* non-zero amounts.  Score, the ledger and the strategies treat every
\* predefined dimension alike, so one of them, beside the custom ids, stands
\* for all four; the priority order, which tells them apart, has its own
\* specification.
ModelDims == {CPU}

----------------------------------------------------------------------------
(* Resource model: ResourceRequest and NodeResources. *)

RECURSIVE SumSeq(_)
SumSeq(s) == IF s = <<>> THEN 0 ELSE Head(s) + SumSeq(Tail(s))

RECURSIVE SumFun(_, _)
SumFun(f, S) ==
    IF S = {} THEN 0
    ELSE LET x == CHOOSE y \in S : TRUE IN f[x] + SumFun(f, S \ {x})

\* Every map from a subset of the ids to an amount in A.
CustomMaps(ids, A) == UNION {[S -> A] : S \in SUBSET ids}

\* Sum of the amounts of a request.
Weight(r) ==
    SumSeq(r.predefined_resources)
    + SumFun(r.custom_resources, DOMAIN r.custom_resources)

\* ResourceRequest values with predefined amounts in A on the dimensions D
\* (0 elsewhere), custom amounts in C, and at most w units in all.
Requests(D, A, C, w) ==
    {r \in [predefined_resources :
                {p \in [1..PredefinedResources_MAX -> A] :
                    \A i \in 1..PredefinedResources_MAX : i \notin D => p[i] = 0},
            custom_resources : CustomMaps(CustomIds, C)] :
        Weight(r) <= w}

\* NodeResources with the available amounts of request r and u more in use.
NodeOf(r, u) ==
    [predefined_resources |->
        [i \in 1..Len(r.predefined_resources) |->
            [total |-> r.predefined_resources[i] + u,
             available |-> r.predefined_resources[i]]],
     custom_resources |->
        [id \in DOMAIN r.custom_resources |->
            [total |-> r.custom_resources[id] + u,
             available |-> r.custom_resources[id]]]]

\* The available amounts of a node, as a request.
AvailableOf(n) ==
    [predefined_resources |->
        [i \in 1..Len(n.predefined_resources) |-> n.predefined_resources[i].available],
     custom_resources |->
        [id \in DOMAIN n.custom_resources |-> n.custom_resources[id].available]]

\* Input families of Spec.  A bundle requests something.
BundleSet == {r \in Requests(ModelDims, 0..MaxReq, 1..MaxReq, MaxReq) : Weight(r) >= 1}
NodeShapes == Requests(ModelDims, 0..MaxCap, 1..MaxCap, MaxCap)

RECURSIVE SeqsUpTo(_, _)
SeqsUpTo(S, n) ==
    IF n = 0 THEN {<<>>}
    ELSE LET shorter == SeqsUpTo(S, n - 1)
         IN shorter \cup {Append(s, x) : s \in {t \in shorter : Len(t) = n - 1}, x \in S}

BundleLists == SeqsUpTo(BundleSet, MaxBundles)

\* Input family of SpecScore: predefined vectors of every length up to
\* MaxScoreLen, custom maps with amounts from 0.
ScoreRequests ==
    {[predefined_resources |-> p, custom_resources |-> c] :
        p \in UNION {[1..n -> 0..MaxCap] : n \in 0..MaxScoreLen},
        c \in CustomMaps(CustomIds, 0..MaxCap)}

\* Input family of SpecSort: bundles over all the predefined dimensions.
SortBundleSet ==
    Requests(1..PredefinedResources_MAX, 0..MaxReq, 0..MaxReq, MaxSortWeight)
SortBundleLists == SeqsUpTo(SortBundleSet, MaxBundles)

\* Scores are multiplied by a common multiple of every available amount.
RECURSIVE Factorial(_)
Factorial(n) == IF n <= 1 THEN 1 ELSE n * Factorial(n - 1)
ScoreScale == Factorial(MaxCap + MaxUsed + 1)

----------------------------------------------------------------------------
(* LeastResourceScorer. *)

\* A Calculate that rejects a request for all that is available (>=).
CalculateStrict(requested, available) ==
    IF requested >= available THEN -1
    ELSE IF available = 0 THEN 0
    ELSE ((available - requested) * ScoreScale) \div available

\* A Calculate that scores a request for more than is available as 0.
CalculateLenient(requested, available) ==
    IF requested > available THEN 0
    ELSE IF available = 0 THEN 0
    ELSE ((available - requested) * ScoreScale) \div available

Calculate(requested, available) ==
    IF requested > available THEN -1
    ELSE IF available = 0 THEN 0
    ELSE ((available - requested) * ScoreScale) \div available

Score(required, node) ==
    LET req_pre == required.predefined_resources
        req_cus == required.custom_resources
        pre_scores == [i \in 1..Len(req_pre) |->
                          Calculate(req_pre[i], node.predefined_resources[i].available)]
        cus_scores == [id \in DOMAIN req_cus |->
                          Calculate(req_cus[id], node.custom_resources[id].available)]
    IN  IF Len(req_pre) > Len(node.predefined_resources) THEN -1
        ELSE IF \E i \in 1..Len(req_pre) : pre_scores[i] < 0 THEN -1
        ELSE IF \E id \in DOMAIN req_cus : id \notin DOMAIN node.custom_resources THEN -1
        ELSE IF \E id \in DOMAIN req_cus : cus_scores[id] < 0 THEN -1
        ELSE SumSeq(pre_scores) + SumFun(cus_scores, DOMAIN req_cus)

----------------------------------------------------------------------------
(* The ledger, gcs_resource_manager_: the interface of spec 4.10 and the   *)
(* NodeResources::IsAvailable test used by StrictPackSchedule.             *)

\* Amount of a node in predefined dimension i or custom id, 0 when the node
\* does not define it.
PredefinedOf(node, i, field) ==
    IF i <= Len(node.predefined_resources) THEN node.predefined_resources[i][field] ELSE 0
CustomOf(node, id, field) ==
    IF id \in DOMAIN node.custom_resources THEN node.custom_resources[id][field] ELSE 0

\* Whether the amounts `field` of the node cover the request in every dimension.
Covers(node, request, field) ==
    /\ \A i \in 1..Len(request.predefined_resources) :
          request.predefined_resources[i] <= PredefinedOf(node, i, field)
    /\ \A id \in DOMAIN request.custom_resources :
          request.custom_resources[id] <= CustomOf(node, id, field)

\* Whether the node could ever satisfy the request.
IsAvailable(node, request) == Covers(node, request, "total")

\* The node with d times the request added to its available amounts.
Adjust(node, request, d) ==
    [predefined_resources |->
        [i \in 1..Len(node.predefined_resources) |->
            IF i <= Len(request.predefined_resources)
            THEN [node.predefined_resources[i] EXCEPT
                     !.available = @ + d * request.predefined_resources[i]]
            ELSE node.predefined_resources[i]],
     custom_resources |->
        [id \in DOMAIN node.custom_resources |->
            IF id \in DOMAIN request.custom_resources
            THEN [node.custom_resources[id] EXCEPT
                     !.available = @ + d * request.custom_resources[id]]
            ELSE node.custom_resources[id]]]

\* AcquireResources: the bool returned and the view afterwards.
AcquireResources(view, node_id, request) ==
    IF Covers(view[node_id], request, "available")
    THEN [ok |-> TRUE, view |-> [view EXCEPT ![node_id] = Adjust(@, request, -1)]]
    ELSE [ok |-> FALSE, view |-> view]

\* ReleaseResources: the bool returned and the view afterwards.
ReleaseResources(view, node_id, request) ==
    [ok |-> TRUE, view |-> [view EXCEPT ![node_id] = Adjust(@, request, 1)]]

AllocateRemoteTaskResources(view, node_id, request) ==
    AcquireResources(view, node_id, request)

ReleaseRemoteTaskResources(view, node_id, request) ==
    ReleaseResources(view, node_id, request)

----------------------------------------------------------------------------
(* Candidate filter and best-node search. *)

\* A filter step that never calls the predicate.
FilterNothing(view, filter) == DOMAIN view

\* node_filter_func: whether it is nullptr and, when it is not, the set of
\* nodes the predicate accepts.
FilterCandidateNodes(view, filter) ==
    {node_id \in DOMAIN view : filter.nullptr \/ node_id \in filter.accepts}

\* A best-node search without the test best_node_score >= 0.
GetBestNodeAnyScore(view, required, candidates) ==
    IF candidates = {} THEN {Nil}
    ELSE {n \in candidates :
             \A m \in candidates : Score(required, view[m]) <= Score(required, view[n])}

\* The values GetBestNode can return, Nil for std::nullopt.  The candidates
\* are iterated in the hash set's order and the first node with the highest
\* score wins, so any node with the highest score can be the one returned.
GetBestNode(view, required, candidates) ==
    LET best == {n \in candidates :
                    \A m \in candidates : Score(required, view[m]) <= Score(required, view[n])}
    IN  IF \E n \in best : Score(required, view[n]) >= 0 THEN best ELSE {Nil}

----------------------------------------------------------------------------
(* Priority ordering. *)

\* The values the read of b_resource can produce when id r is missing from
\* a's map: b_iter is then a.custom_resources.end(), and its comparison with
\* b.custom_resources.end() is undefined.  Equal: b_resource is 0.  Unequal:
\* b_resource is whatever a's end iterator points at, of either sign.  One
\* value stands for the reads of one sort.
UndefinedReads == (-1)..MaxReq

\* Lines 194-202: the first id of extra_resources_set, in ascending order, at
\* which a_resource and b_resource differ decides; both are read through
\* iterators of a's map.
RECURSIVE CompareCustom(_, _, _, _)
CompareCustom(a, b, extra_resources_set, ub) ==
    IF extra_resources_set = {} THEN "tie"
    ELSE LET r == CHOOSE x \in extra_resources_set :
                      \A y \in extra_resources_set : x <= y
             a_resource == IF r \in DOMAIN a.custom_resources
                           THEN a.custom_resources[r] ELSE 0
             b_resource == IF r \in DOMAIN a.custom_resources
                           THEN a.custom_resources[r] ELSE ub
         IN  IF a_resource # b_resource
             THEN (IF a_resource < b_resource THEN "less" ELSE "greater")
             ELSE CompareCustom(a, b, extra_resources_set \ {r}, ub)

RECURSIVE ComparePredefined(_, _, _)
ComparePredefined(a, b, idxs) ==
    IF idxs = <<>> THEN "tie"
    ELSE LET idx == Head(idxs)
         IN  IF a.predefined_resources[idx] # b.predefined_resources[idx]
             THEN (IF a.predefined_resources[idx] < b.predefined_resources[idx]
                   THEN "less" ELSE "greater")
             ELSE ComparePredefined(a, b, Tail(idxs))

\* The lambda of std::sort, called as comp(b_idx, a_idx): TRUE when a < b.
Comparator(b, a, ub) ==
    LET custom == CompareCustom(a, b,
                     DOMAIN a.custom_resources \cup DOMAIN b.custom_resources, ub)
    IN  IF a.predefined_resources[GPU] # b.predefined_resources[GPU]
        THEN a.predefined_resources[GPU] < b.predefined_resources[GPU]
        ELSE IF custom # "tie" THEN custom = "less"
        ELSE ComparePredefined(a, b, <<OBJECT_STORE_MEM, MEM, CPU>>) = "less"

\* Whether the comparator is a strict weak ordering of the requests.
IsStrictWeakOrdering(rs, ub) ==
    LET I == 1..Len(rs)
        lt(x, y) == Comparator(rs[x], rs[y], ub)
        eq(x, y) == ~lt(x, y) /\ ~lt(y, x)
    IN  /\ \A x \in I : ~lt(x, x)
        /\ \A x, y \in I : lt(x, y) => ~lt(y, x)
        /\ \A x, y, z \in I : lt(x, y) /\ lt(y, z) => lt(x, z)
        /\ \A x, y, z \in I : eq(x, y) /\ eq(y, z) => eq(x, z)

\* The index vectors SortRequiredResources can return.  std::sort leaves the
\* order of equivalent elements open; with a comparator that is no strict
\* weak ordering it leaves the whole order open.
SortRequiredResources(rs, ub) ==
    LET perms == Permutations(1..Len(rs))
    IN  IF IsStrictWeakOrdering(rs, ub)
        THEN {p \in perms :
                 \A i, j \in 1..Len(rs) : i < j => ~Comparator(rs[p[j]], rs[p[i]], ub)}
        ELSE perms

\* A reordering that reads through the index instead of writing through it
\* (sorted_nodes[i] = result.second[sorted_index[i]]).
SortSchedulingResultForward(res, index) ==
    IF res.status = "SUCCESS"
    THEN [status |-> res.status,
          nodes |-> [k \in 1..Len(res.nodes) |-> res.nodes[index[k]]]]
    ELSE res

\* SortSchedulingResult: on SUCCESS the nodes are put back in caller order.
SortSchedulingResult(res, index) ==
    IF res.status = "SUCCESS"
    THEN [status |-> res.status,
          nodes |-> [k \in 1..Len(res.nodes) |->
                        IF \E i \in 1..Len(index) : index[i] = k
                        THEN res.nodes[CHOOSE i \in 1..Len(index) :
                                          /\ index[i] = k
                                          /\ \A j \in 1..Len(index) : index[j] = k => j <= i]
                        ELSE Nil]]
    ELSE res

----------------------------------------------------------------------------
(* Strategies. *)

Statuses == {"SUCCESS", "FAILED", "INFEASIBLE"}
SchedulingTypes == {"SPREAD", "STRICT_SPREAD", "PACK", "STRICT_PACK"}

Max(a, b) == IF a >= b THEN a ELSE b

\* Lines 289-303: the sum of the requests, dimension by dimension.
RECURSIVE Aggregate(_)
Aggregate(rs) ==
    IF rs = <<>> THEN [predefined_resources |-> <<>>, custom_resources |-> <<>>]
    ELSE LET aggregated == Aggregate(SubSeq(rs, 1, Len(rs) - 1))
             resource_request == rs[Len(rs)]
             agg_pre == aggregated.predefined_resources
             req_pre == resource_request.predefined_resources
             agg_cus == aggregated.custom_resources
             req_cus == resource_request.custom_resources
         IN  [predefined_resources |->
                 [i \in 1..Max(Len(agg_pre), Len(req_pre)) |->
                     (IF i <= Len(agg_pre) THEN agg_pre[i] ELSE 0)
                     + (IF i <= Len(req_pre) THEN req_pre[i] ELSE 0)],
              custom_resources |->
                 [id \in DOMAIN agg_cus \cup DOMAIN req_cus |->
                     (IF id \in DOMAIN agg_cus THEN agg_cus[id] ELSE 0)
                     + (IF id \in DOMAIN req_cus THEN req_cus[id] ELSE 0)]]

\* A strict pack that reports a failed best-node search as INFEASIBLE.
StrictPackScheduleNoneInfeasible(view, rs, candidates) ==
    {IF best_node # Nil /\ rs # <<>>
     THEN [status |-> "SUCCESS", nodes |-> [index \in 1..Len(rs) |-> best_node]]
     ELSE [status |-> "INFEASIBLE", nodes |-> <<>>] :
        best_node \in GetBestNode(view, Aggregate(rs), candidates)}

\* A strict pack that searches the best node of each bundle on its own.
StrictPackSchedulePerBundle(view, rs, candidates) ==
    {[status |-> "SUCCESS", nodes |-> nodes] :
        nodes \in {f \in [1..Len(rs) -> candidates] :
                      \A i \in 1..Len(rs) : f[i] \in GetBestNode(view, rs[i], candidates)}}
    \cup {[status |-> "FAILED", nodes |-> <<>>]}

\* A strict pack that searches the best node in the whole cluster view, as
\* its IsAvailable check does, instead of in candidate_nodes.
StrictPackScheduleWholeCluster(view, rs, candidates) ==
    LET aggregated_resource_request == Aggregate(rs)
    IN  IF ~\E n \in DOMAIN view : IsAvailable(view[n], aggregated_resource_request)
        THEN {[status |-> "INFEASIBLE", nodes |-> <<>>]}
        ELSE {IF best_node = Nil \/ rs = <<>>
              THEN [status |-> "FAILED", nodes |-> <<>>]
              ELSE [status |-> "SUCCESS", nodes |-> [index \in 1..Len(rs) |-> best_node]] :
                 best_node \in GetBestNode(view, aggregated_resource_request, DOMAIN view)}

\* The results StrictPackSchedule can return.
StrictPackSchedule(view, rs, candidates) ==
    LET aggregated_resource_request == Aggregate(rs)
    IN  IF ~\E n \in DOMAIN view : IsAvailable(view[n], aggregated_resource_request)
        THEN {[status |-> "INFEASIBLE", nodes |-> <<>>]}
        ELSE {LET nodes == IF best_node # Nil
                           THEN [index \in 1..Len(rs) |-> best_node]
                           ELSE <<>>
              IN  IF nodes = <<>>
                  THEN [status |-> "FAILED", nodes |-> <<>>]
                  ELSE [status |-> "SUCCESS", nodes |-> nodes] :
                 best_node \in GetBestNode(view, aggregated_resource_request, candidates)}

\* A release loop that stops one node short (index < nodes.size() - 1).
RECURSIVE ReleaseAllButLast(_, _, _)
ReleaseAllButLast(view, rs, nodes) ==
    IF Len(nodes) <= 1 THEN [view |-> view, released |-> {}]
    ELSE LET index == Len(nodes) - 1
             before == ReleaseAllButLast(view, rs, SubSeq(nodes, 1, index))
         IN  IF nodes[index] # Nil
             THEN [view |-> ReleaseResources(before.view, nodes[index], rs[index]).view,
                   released |-> before.released \cup {<<index, nodes[index]>>}]
             ELSE before

\* Lines 409-418: the view after the releases, and the releases made.
RECURSIVE ReleaseTemporarilyDeductedResources(_, _, _)
ReleaseTemporarilyDeductedResources(view, rs, nodes) ==
    IF nodes = <<>> THEN [view |-> view, released |-> {}]
    ELSE LET index == Len(nodes)
             before == ReleaseTemporarilyDeductedResources(
                           view, rs, SubSeq(nodes, 1, index - 1))
         IN  IF nodes[index] # Nil
             THEN [view |-> ReleaseRemoteTaskResources(
                                before.view, nodes[index], rs[index]).view,
                   released |-> before.released \cup {<<index, nodes[index]>>}]
             ELSE before

\* A scan that tries no queued bundle on best_node.
PackScanNothing(view, best_node, queue, kept, nodes, acquired) ==
    [view |-> view, queue |-> kept \o queue, nodes |-> nodes, acquired |-> acquired]

\* Lines 364-372: the first-fit scan of the queue against best_node.  `queue`
\* is the part still to scan, `kept` the part scanned and left in the queue.
RECURSIVE PackScan(_, _, _, _, _, _)
PackScan(view, best_node, queue, kept, nodes, acquired) ==
    IF queue = <<>>
    THEN [view |-> view, queue |-> kept, nodes |-> nodes, acquired |-> acquired]
    ELSE LET iter == Head(queue)
             got == AllocateRemoteTaskResources(view, best_node, iter.second)
         IN  IF got.ok
             THEN PackScan(got.view, best_node, Tail(queue), kept,
                           [nodes EXCEPT ![iter.first] = best_node],
                           acquired \cup {<<iter.first, best_node>>})
             ELSE PackScan(view, best_node, Tail(queue), Append(kept, iter),
                           nodes, acquired)

\* An end of PackSchedule that hands out the partial assignment on failure.
PackReturnPartial(view, rs, nodes, queue) ==
    LET after == ReleaseTemporarilyDeductedResources(view, rs, nodes)
    IN  [view |-> after.view, released |-> after.released,
         result |-> IF queue # <<>>
                    THEN [status |-> "FAILED", nodes |-> nodes]
                    ELSE [status |-> "SUCCESS", nodes |-> nodes]]

\* Lines 376-383: the end of PackSchedule, after its loop.
PackReturn(view, rs, nodes, queue) ==
    LET after == ReleaseTemporarilyDeductedResources(view, rs, nodes)
    IN  [view |-> after.view, released |-> after.released,
         result |-> IF queue # <<>>
                    THEN [status |-> "FAILED", nodes |-> <<>>]
                    ELSE [status |-> "SUCCESS", nodes |-> nodes]]

\* Lines 275-282: the end of SpreadSchedule, after its loop.
SpreadReturn(view, rs, nodes) ==
    LET after == ReleaseTemporarilyDeductedResources(view, rs, nodes)
    IN  [view |-> after.view, released |-> after.released,
         result |-> IF Len(nodes) # Len(rs)
                    THEN [status |-> "FAILED", nodes |-> <<>>]
                    ELSE [status |-> "SUCCESS", nodes |-> nodes]]

\* An end of StrictSpreadSchedule that reports a short result as INFEASIBLE.
StrictSpreadReturnInfeasible(rs, nodes) ==
    IF Len(nodes) # Len(rs)
    THEN [status |-> "INFEASIBLE", nodes |-> <<>>]
    ELSE [status |-> "SUCCESS", nodes |-> nodes]

\* Lines 240-244: the end of StrictSpreadSchedule, after its loop.
StrictSpreadReturn(rs, nodes) ==
    IF Len(nodes) # Len(rs)
    THEN [status |-> "FAILED", nodes |-> <<>>]
    ELSE [status |-> "SUCCESS", nodes |-> nodes]

----------------------------------------------------------------------------
(* The state machine. *)

NoRequest == [predefined_resources |-> <<>>, custom_resources |-> <<>>]
NoResult == [status |-> "NONE", nodes |-> <<>>]

\* The filters a caller passes: none, or a predicate over the node ids.
NoFilter == [nullptr |-> TRUE, accepts |-> {}]
\* The predicates accept the first k nodes; the clusters of Init are closed
\* under renaming the nodes, so these stand for every proper subset.
Filters == {NoFilter} \cup {[nullptr |-> FALSE, accepts |-> 1..k] : k \in 0..(NumNodes - 1)}

\* What a step of a call leaves alone: the arguments of the scorer's own
\* specification, and the locals of a call that is not running.
ScorerIdle ==
    UNCHANGED <<required_resources, node_resources, node_score,
                suspended, initial_view, interleaved>>

\* No call in progress.
Idle(view) ==
    /\ pc = "idle"
    /\ required_resources_list = <<>>
    /\ scheduling_type = "NONE"
    /\ node_filter_func = NoFilter
    /\ candidate_nodes = {}
    /\ sorted_index = <<>>
    /\ sorted_resources = <<>>
    /\ candidate_nodes_copy = {}
    /\ selected_nodes = {}
    /\ result_nodes = <<>>
    /\ required_resources_list_copy = <<>>
    /\ result = NoResult
    /\ pre_available = view
    /\ deducted = {}
    /\ released = {}
    /\ calls = {}

\* The locals of a Schedule call: its arguments, its position, the locals of
\* the strategy it runs, and its history.
Locals ==
    [pc |-> pc,
     required_resources_list |-> required_resources_list,
     scheduling_type |-> scheduling_type,
     node_filter_func |-> node_filter_func,
     candidate_nodes |-> candidate_nodes,
     sorted_index |-> sorted_index,
     sorted_resources |-> sorted_resources,
     candidate_nodes_copy |-> candidate_nodes_copy,
     selected_nodes |-> selected_nodes,
     result_nodes |-> result_nodes,
     required_resources_list_copy |-> required_resources_list_copy,
     result |-> result,
     pre_available |-> pre_available,
     deducted |-> deducted,
     released |-> released,
     calls |-> calls]

\* No second call: its locals are those of a call not yet made.
NoOtherCall ==
    /\ suspended = Locals
    /\ initial_view = cluster_resources
    /\ interleaved = FALSE

Init ==
    /\ \E shapes \in [Nodes -> NodeShapes], used \in 0..MaxUsed :
          cluster_resources = [n \in Nodes |-> NodeOf(shapes[n], used)]
    /\ Idle(cluster_resources)
    /\ NoOtherCall
    /\ required_resources = NoRequest
    /\ node_resources = NodeOf(NoRequest, 0)
    /\ node_score = 0

\* Lines 97-138: Schedule up to the first iteration of the strategy's loop
\* (the whole call when no loop is entered).
Schedule(rs, type, filter, ub) ==
    /\ pc = "idle"
    /\ required_resources_list' = rs
    /\ scheduling_type' = type
    /\ node_filter_func' = filter
    /\ pre_available' = cluster_resources
    /\ deducted' = {}
    /\ released' = {}
    /\ selected_nodes' = {}
    /\ candidate_nodes' = FilterCandidateNodes(cluster_resources, filter)
    /\ UNCHANGED cluster_resources
    /\ ScorerIdle
    /\ IF candidate_nodes' = {}
       THEN /\ result' = [status |-> "INFEASIBLE", nodes |-> <<>>]
            /\ pc' = "done"
            /\ calls' = {}
            /\ sorted_index' = <<>>
            /\ sorted_resources' = <<>>
            /\ candidate_nodes_copy' = {}
            /\ result_nodes' = <<>>
            /\ required_resources_list_copy' = <<>>
       ELSE IF type = "STRICT_PACK"
       THEN /\ result' \in StrictPackSchedule(cluster_resources, rs, candidate_nodes')
            /\ pc' = "done"
            /\ calls' = IF result'.status = "INFEASIBLE" THEN {} ELSE {"Score"}
            /\ sorted_index' = <<>>
            /\ sorted_resources' = <<>>
            /\ candidate_nodes_copy' = {}
            /\ result_nodes' = result'.nodes
            /\ required_resources_list_copy' = <<>>
       ELSE /\ sorted_index' \in SortRequiredResources(rs, ub)
            /\ sorted_resources' = [i \in 1..Len(rs) |-> rs[sorted_index'[i]]]
            /\ calls' = {"SortRequiredResources"}
            /\ candidate_nodes_copy' = candidate_nodes'
            /\ required_resources_list_copy' =
                  IF type = "PACK"
                  THEN [i \in 1..Len(rs) |-> [first |-> i, second |-> sorted_resources'[i]]]
                  ELSE <<>>
            /\ result_nodes' = IF type = "PACK" THEN [i \in 1..Len(rs) |-> Nil] ELSE <<>>
            /\ IF type \notin SchedulingTypes
               THEN pc' = "fatal" /\ result' = NoResult
               ELSE IF type = "STRICT_SPREAD" /\ Len(rs) > Cardinality(candidate_nodes')
               THEN /\ pc' = "done"
                    /\ result' = SortSchedulingResult(
                          [status |-> "INFEASIBLE", nodes |-> <<>>], sorted_index')
               ELSE IF rs = <<>>
               THEN /\ pc' = "done"
                    /\ result' = SortSchedulingResult(
                          [status |-> "SUCCESS", nodes |-> <<>>], sorted_index')
               ELSE /\ pc' = type
                    /\ result' = NoResult

\* An erase that leaves the pool as it was.
EraseNothing(nodes, node_id) == nodes

\* candidate_nodes_copy.erase(node): the chosen node leaves the pool.
EraseNode(nodes, node_id) == nodes \ {node_id}

\* The Score calls of one GetBestNode call: one per candidate.
ScoreCalls(candidates) == IF candidates = {} THEN {} ELSE {"Score"}

\* Lines 350-384: one iteration of PackSchedule's loop, and the rest of the
\* call when the loop ends with it.
PackStep ==
    /\ pc = "PACK"
    /\ required_resources_list_copy # <<>>
    /\ LET front == Head(required_resources_list_copy)
       IN \E best_node \in GetBestNode(cluster_resources, front.second, candidate_nodes_copy) :
          LET got == AllocateRemoteTaskResources(cluster_resources, best_node, front.second)
              scan == PackScan(got.view, best_node, Tail(required_resources_list_copy),
                               <<>>, [result_nodes EXCEPT ![front.first] = best_node],
                               deducted \cup {<<front.first, best_node>>})
              stop == PackReturn(cluster_resources, sorted_resources, result_nodes,
                                 required_resources_list_copy)
              end == PackReturn(scan.view, sorted_resources, scan.nodes, scan.queue)
          IN  IF best_node = Nil
              THEN /\ cluster_resources' = stop.view
                   /\ released' = stop.released
                   /\ result' = SortSchedulingResult(stop.result, sorted_index)
                   /\ calls' = calls \cup ScoreCalls(candidate_nodes_copy)
                                \cup (IF stop.released # {} THEN {"ReleaseResources"} ELSE {})
                   /\ pc' = "done"
                   /\ UNCHANGED <<result_nodes, required_resources_list_copy,
                                  candidate_nodes_copy, deducted>>
              ELSE IF ~got.ok
              THEN /\ pc' = "fatal"
                   /\ calls' = calls \cup {"Score", "AcquireResources"}
                   /\ UNCHANGED <<cluster_resources, released, result, result_nodes,
                                  required_resources_list_copy, candidate_nodes_copy,
                                  deducted>>
              ELSE /\ result_nodes' = scan.nodes
                   /\ required_resources_list_copy' = scan.queue
                   /\ candidate_nodes_copy' = EraseNode(candidate_nodes_copy, best_node)
                   /\ deducted' = scan.acquired
                   /\ IF scan.queue = <<>>
                      THEN /\ cluster_resources' = end.view
                           /\ released' = end.released
                           /\ result' = SortSchedulingResult(end.result, sorted_index)
                           /\ calls' = calls \cup {"Score", "AcquireResources",
                                                   "ReleaseResources"}
                           /\ pc' = "done"
                      ELSE /\ cluster_resources' = scan.view
                           /\ calls' = calls \cup {"Score", "AcquireResources"}
                           /\ UNCHANGED <<released, result, pc>>
    /\ UNCHANGED <<required_resources_list, scheduling_type, node_filter_func,
                   candidate_nodes, sorted_index, sorted_resources, selected_nodes,
                   pre_available>>
    /\ ScorerIdle

\* Lines 253-283: one iteration of SpreadSchedule's loop, and the rest of
\* the call when the loop ends with it.
SpreadStep ==
    /\ pc = "SPREAD"
    /\ Len(result_nodes) < Len(sorted_resources)
    /\ LET index == Len(result_nodes) + 1
           iter == sorted_resources[index]
       IN \E best_node \in GetBestNode(cluster_resources, iter, candidate_nodes_copy),
             reused_node \in GetBestNode(cluster_resources, iter, selected_nodes) :
          LET node == IF best_node # Nil THEN best_node ELSE reused_node
              got == AllocateRemoteTaskResources(cluster_resources, node, iter)
              nodes == Append(result_nodes, node)
              stop == SpreadReturn(cluster_resources, sorted_resources, result_nodes)
              end == SpreadReturn(got.view, sorted_resources, nodes)
              scored == calls \cup ScoreCalls(candidate_nodes_copy)
                        \cup (IF best_node = Nil THEN ScoreCalls(selected_nodes) ELSE {})
          IN  IF node = Nil
              THEN /\ cluster_resources' = stop.view
                   /\ released' = stop.released
                   /\ result' = SortSchedulingResult(stop.result, sorted_index)
                   /\ calls' = scored
                        \cup (IF stop.released # {} THEN {"ReleaseResources"} ELSE {})
                   /\ pc' = "done"
                   /\ UNCHANGED <<result_nodes, candidate_nodes_copy, selected_nodes,
                                  deducted>>
              ELSE IF ~got.ok
              THEN /\ pc' = "fatal"
                   /\ calls' = scored \cup {"AcquireResources"}
                   /\ UNCHANGED <<cluster_resources, released, result, result_nodes,
                                  candidate_nodes_copy, selected_nodes, deducted>>
              ELSE /\ result_nodes' = nodes
                   /\ deducted' = deducted \cup {<<index, node>>}
                   /\ candidate_nodes_copy' =
                         IF best_node # Nil THEN EraseNode(candidate_nodes_copy, node)
                         ELSE candidate_nodes_copy
                   /\ selected_nodes' =
                         IF best_node # Nil THEN selected_nodes \cup {node}
                         ELSE selected_nodes
                   /\ IF Len(nodes) = Len(sorted_resources)
                      THEN /\ cluster_resources' = end.view
                           /\ released' = end.released
                           /\ result' = SortSchedulingResult(end.result, sorted_index)
                           /\ calls' = scored \cup {"AcquireResources", "ReleaseResources"}
                           /\ pc' = "done"
                      ELSE /\ cluster_resources' = got.view
                           /\ calls' = scored \cup {"AcquireResources"}
                           /\ UNCHANGED <<released, result, pc>>
    /\ UNCHANGED <<required_resources_list, scheduling_type, node_filter_func,
                   candidate_nodes, sorted_index, sorted_resources,
                   required_resources_list_copy, pre_available>>
    /\ ScorerIdle

\* Lines 226-244: one iteration of StrictSpreadSchedule's loop, and the rest
\* of the call when the loop ends with it.
StrictSpreadStep ==
    /\ pc = "STRICT_SPREAD"
    /\ Len(result_nodes) < Len(sorted_resources)
    /\ LET iter == sorted_resources[Len(result_nodes) + 1]
       IN \E best_node \in GetBestNode(cluster_resources, iter, candidate_nodes_copy) :
          LET nodes == Append(result_nodes, best_node)
          IN  /\ calls' = calls \cup ScoreCalls(candidate_nodes_copy)
              /\ IF best_node = Nil
                 THEN /\ result' = SortSchedulingResult(
                            StrictSpreadReturn(sorted_resources, result_nodes), sorted_index)
                      /\ pc' = "done"
                      /\ UNCHANGED <<result_nodes, candidate_nodes_copy>>
                 ELSE /\ result_nodes' = nodes
                      /\ candidate_nodes_copy' = EraseNode(candidate_nodes_copy, best_node)
                      /\ IF Len(nodes) = Len(sorted_resources)
                         THEN /\ result' = SortSchedulingResult(
                                    StrictSpreadReturn(sorted_resources, nodes), sorted_index)
                              /\ pc' = "done"
                         ELSE UNCHANGED <<result, pc>>
    /\ UNCHANGED <<cluster_resources, required_resources_list, scheduling_type,
                   node_filter_func, candidate_nodes, sorted_index, sorted_resources,
                   selected_nodes, required_resources_list_copy, pre_available,
                   deducted, released>>
    /\ ScorerIdle

\* The caller has its result; the next call can start.
Return ==
    /\ pc = "done"
    /\ pc' = "idle"
    /\ required_resources_list' = <<>>
    /\ scheduling_type' = "NONE"
    /\ node_filter_func' = NoFilter
    /\ candidate_nodes' = {}
    /\ sorted_index' = <<>>
    /\ sorted_resources' = <<>>
    /\ candidate_nodes_copy' = {}
    /\ selected_nodes' = {}
    /\ result_nodes' = <<>>
    /\ required_resources_list_copy' = <<>>
    /\ result' = NoResult
    /\ pre_available' = cluster_resources
    /\ deducted' = {}
    /\ released' = {}
    /\ calls' = {}
    /\ UNCHANGED cluster_resources
    /\ ScorerIdle

CallSchedule ==
    \E rs \in BundleLists, type \in SchedulingTypes \cup {"UNSUPPORTED"},
       filter \in Filters, ub \in UndefinedReads :
        Schedule(rs, type, filter, ub)

Next == CallSchedule \/ PackStep \/ SpreadStep \/ StrictSpreadStep \/ Return

Spec == Init /\ [][Next]_vars

----------------------------------------------------------------------------
(* Two Schedule calls on one cluster view, with no lock between them.  One  *)
(* call runs; the locals of the other are kept in `suspended`.  Switch      *)
(* hands the processor to the other call, between two iterations of a       *)
(* strategy's loop or before or after a call.  Each call is made once.      *)

Looping == {"PACK", "SPREAD"}

Switch ==
    /\ suspended # Locals
    /\ suspended' = Locals
    /\ interleaved' = (interleaved \/ pc \in Looping)
    /\ pc' = suspended.pc
    /\ required_resources_list' = suspended.required_resources_list
    /\ scheduling_type' = suspended.scheduling_type
    /\ node_filter_func' = suspended.node_filter_func
    /\ candidate_nodes' = suspended.candidate_nodes
    /\ sorted_index' = suspended.sorted_index
    /\ sorted_resources' = suspended.sorted_resources
    /\ candidate_nodes_copy' = suspended.candidate_nodes_copy
    /\ selected_nodes' = suspended.selected_nodes
    /\ result_nodes' = suspended.result_nodes
    /\ required_resources_list_copy' = suspended.required_resources_list_copy
    /\ result' = suspended.result
    /\ pre_available' = suspended.pre_available
    /\ deducted' = suspended.deducted
    /\ released' = suspended.released
    /\ calls' = suspended.calls
    /\ UNCHANGED <<cluster_resources, initial_view, required_resources,
                   node_resources, node_score>>

\* The cluster before the two calls: nothing is in use.
InitConcurrent ==
    /\ \E shapes \in [Nodes -> NodeShapes] :
          cluster_resources = [n \in Nodes |-> NodeOf(shapes[n], 0)]
    /\ Idle(cluster_resources)
    /\ NoOtherCall
    /\ required_resources = NoRequest
    /\ node_resources = NodeOf(NoRequest, 0)
    /\ node_score = 0

CallConcurrent ==
    \E rs \in SeqsUpTo(BundleSet, MaxConcurrentBundles), type \in Looping,
       ub \in UndefinedReads :
        Schedule(rs, type, NoFilter, ub)

NextConcurrent == CallConcurrent \/ PackStep \/ SpreadStep \/ Switch

SpecConcurrent == InitConcurrent /\ [][NextConcurrent]_vars

----------------------------------------------------------------------------
(* Schedule as one synchronous unit of work: a strategy's loop that can     *)
(* make its next iteration makes it.                                        *)

CallFair ==
    \E rs \in SeqsUpTo(BundleSet, MaxConcurrentBundles), type \in SchedulingTypes,
       filter \in Filters, ub \in UndefinedReads :
        Schedule(rs, type, filter, ub)

NextFair == CallFair \/ PackStep \/ SpreadStep \/ StrictSpreadStep \/ Return

SpecFair ==
    /\ InitConcurrent
    /\ [][NextFair]_vars
    /\ WF_vars(PackStep)
    /\ WF_vars(SpreadStep)
    /\ WF_vars(StrictSpreadStep)

----------------------------------------------------------------------------
(* LeastResourceScorer::Score on its own: the inputs are drawn by the      *)
(* initial state and one step applies the function.                        *)

InitScore ==
    /\ cluster_resources = <<>>
    /\ Idle(cluster_resources)
    /\ required_resources \in ScoreRequests
    /\ node_resources \in {NodeOf(r, 0) : r \in ScoreRequests}
    /\ node_score = 0
    /\ NoOtherCall

ApplyScore ==
    /\ pc = "idle"
    /\ pc' = "scored"
    /\ node_score' = Score(required_resources, node_resources)
    /\ UNCHANGED <<cluster_resources, required_resources_list, scheduling_type,
                   node_filter_func, candidate_nodes, sorted_index, sorted_resources,
                   candidate_nodes_copy, selected_nodes, result_nodes,
                   required_resources_list_copy, result, pre_available, deducted,
                   released, calls, required_resources, node_resources,
                   suspended, initial_view, interleaved>>

NextScore == ApplyScore

SpecScore == InitScore /\ [][NextScore]_vars

----------------------------------------------------------------------------
(* SortRequiredResources on its own. *)

InitSort ==
    /\ cluster_resources = <<>>
    /\ pc = "idle"
    /\ required_resources_list \in SortBundleLists
    /\ scheduling_type = "NONE"
    /\ node_filter_func = NoFilter
    /\ candidate_nodes = {}
    /\ sorted_index = <<>>
    /\ sorted_resources = <<>>
    /\ candidate_nodes_copy = {}
    /\ selected_nodes = {}
    /\ result_nodes = <<>>
    /\ required_resources_list_copy = <<>>
    /\ result = NoResult
    /\ pre_available = cluster_resources
    /\ deducted = {}
    /\ released = {}
    /\ calls = {}
    /\ required_resources = NoRequest
    /\ node_resources = NodeOf(NoRequest, 0)
    /\ node_score = 0
    /\ NoOtherCall

ApplySort ==
    /\ pc = "idle"
    /\ pc' = "sorted"
    /\ \E ub \in UndefinedReads :
          sorted_index' \in SortRequiredResources(required_resources_list, ub)
    /\ sorted_resources' =
          [i \in 1..Len(required_resources_list) |->
              required_resources_list[sorted_index'[i]]]
    /\ calls' = {"SortRequiredResources"}
    /\ UNCHANGED <<cluster_resources, required_resources_list, scheduling_type,
                   node_filter_func, candidate_nodes, candidate_nodes_copy,
                   selected_nodes, result_nodes, required_resources_list_copy,
                   result, pre_available, deducted, released>>
    /\ ScorerIdle

NextSort == ApplySort

SpecSort == InitSort /\ [][NextSort]_vars

----------------------------------------------------------------------------
(* Properties of Schedule. *)

Returned == pc = "done"

\* No value occurs at two positions of s.
Distinct(s) == \A i, j \in 1..Len(s) : i # j => s[i] # s[j]

\* C1: when a Schedule call has returned, under any strategy and with any
\* status, every node's available amounts are what they were before the call;
\* the releases made are exactly the provisional acquisitions made, and the
\* strict strategies made none.
C1_NoNetDeduction ==
    Returned =>
        /\ \A n \in DOMAIN cluster_resources :
              AvailableOf(cluster_resources[n]) = AvailableOf(pre_available[n])
        /\ released = deducted
        /\ scheduling_type \in {"STRICT_PACK", "STRICT_SPREAD"} => deducted = {}

\* C1 witness: a PACK or SPREAD call that acquired on two nodes and failed.
C1_Witness ==
    /\ Returned
    /\ scheduling_type \in {"PACK", "SPREAD"}
    /\ result.status = "FAILED"
    /\ \E d1, d2 \in deducted : d1[2] # d2[2]

\* C2: a SUCCESS result has one node per input bundle, and for PACK, SPREAD
\* and STRICT_SPREAD the node of the bundle the strategy processed at
\* position i (the caller's bundle sorted_index[i]) is returned at the
\* caller's position of that bundle.
C2_CallerOrder ==
    Returned /\ result.status = "SUCCESS" =>
        /\ Len(result.nodes) = Len(required_resources_list)
        /\ \A k \in 1..Len(result.nodes) : result.nodes[k] \in Nodes
        /\ scheduling_type \in {"PACK", "SPREAD", "STRICT_SPREAD"} =>
              /\ \A i \in 1..Len(sorted_index) :
                    result.nodes[sorted_index[i]] = result_nodes[i]
              /\ scheduling_type # "STRICT_SPREAD" =>
                    \A d \in deducted : result.nodes[sorted_index[d[1]]] = d[2]

\* C2 witness: a SUCCESS on two nodes whose priority permutation is a cycle
\* of three bundles, which is not its own inverse.
C2_Witness ==
    /\ Returned
    /\ result.status = "SUCCESS"
    /\ scheduling_type \in {"PACK", "SPREAD"}
    /\ sorted_index = <<3, 1, 2>>
    /\ \E i, j \in 1..Len(result.nodes) : result.nodes[i] # result.nodes[j]

\* C3: a call that returns FAILED or INFEASIBLE returns no node.
C3_AllOrNothing ==
    Returned /\ result.status \in {"FAILED", "INFEASIBLE"} => result.nodes = <<>>

\* C3 witness: a call that fails after some bundle was assigned a node.
C3_Witness ==
    /\ Returned
    /\ result.status = "FAILED"
    /\ \E i \in 1..Len(result_nodes) : result_nodes[i] # Nil

\* C4: the nodes of a STRICT_SPREAD SUCCESS are pairwise distinct.
C4_StrictSpreadDistinct ==
    Returned /\ scheduling_type = "STRICT_SPREAD" /\ result.status = "SUCCESS" =>
        Distinct(result.nodes)

\* C4 witness: a STRICT_SPREAD SUCCESS of two bundles.
C4_Witness ==
    /\ Returned
    /\ scheduling_type = "STRICT_SPREAD"
    /\ result.status = "SUCCESS"
    /\ Len(result.nodes) >= 2

\* C5: the nodes of a STRICT_PACK SUCCESS are all the same node.
C5_StrictPackSameNode ==
    Returned /\ scheduling_type = "STRICT_PACK" /\ result.status = "SUCCESS" =>
        \A i, j \in 1..Len(result.nodes) : result.nodes[i] = result.nodes[j]

\* C5 witness: a STRICT_PACK SUCCESS of two bundles with two candidates.
C5_Witness ==
    /\ Returned
    /\ scheduling_type = "STRICT_PACK"
    /\ result.status = "SUCCESS"
    /\ Len(result.nodes) >= 2
    /\ Cardinality(candidate_nodes) >= 2

\* The amount the bundles of rs request together in predefined dimension i
\* and of custom id.
RECURSIVE DemandPredefined(_, _)
DemandPredefined(rs, i) ==
    IF rs = <<>> THEN 0
    ELSE (IF i <= Len(Head(rs).predefined_resources)
          THEN Head(rs).predefined_resources[i] ELSE 0)
         + DemandPredefined(Tail(rs), i)

RECURSIVE DemandCustom(_, _)
DemandCustom(rs, id) ==
    IF rs = <<>> THEN 0
    ELSE (IF id \in DOMAIN Head(rs).custom_resources
          THEN Head(rs).custom_resources[id] ELSE 0)
         + DemandCustom(Tail(rs), id)

RequestedIds(rs) == UNION {DOMAIN rs[k].custom_resources : k \in 1..Len(rs)}

\* Whether the node's amounts `field` hold all the bundles of rs at once.
HoldsAll(node, rs, field) ==
    /\ \A i \in 1..PredefinedResources_MAX :
          /\ i <= Len(node.predefined_resources)
          /\ DemandPredefined(rs, i) <= node.predefined_resources[i][field]
    /\ \A id \in RequestedIds(rs) :
          /\ id \in DOMAIN node.custom_resources
          /\ DemandCustom(rs, id) <= node.custom_resources[id][field]

SomeNodeHoldsAll(field) ==
    \E n \in DOMAIN cluster_resources :
        HoldsAll(cluster_resources[n], required_resources_list, field)

\* C6: with candidates, STRICT_PACK returns INFEASIBLE only when no node of
\* the cluster has the total capacity for all the bundles together; when some
\* node has the capacity and no node has it available, the status is FAILED.
C6_StrictPackInfeasible ==
    Returned /\ scheduling_type = "STRICT_PACK" /\ candidate_nodes # {} =>
        /\ result.status = "INFEASIBLE" => ~SomeNodeHoldsAll("total")
        /\ SomeNodeHoldsAll("total") /\ ~SomeNodeHoldsAll("available") =>
              result.status = "FAILED"

\* C6 witness: a transient shortfall, reported as FAILED.
C6_Witness ==
    /\ Returned
    /\ scheduling_type = "STRICT_PACK"
    /\ candidate_nodes # {}
    /\ required_resources_list # <<>>
    /\ SomeNodeHoldsAll("total")
    /\ ~SomeNodeHoldsAll("available")
    /\ result.status = "FAILED"

NoCandidatePasses ==
    \A n \in DOMAIN cluster_resources :
        ~node_filter_func.nullptr /\ n \notin node_filter_func.accepts

StrictPackImpossible ==
    scheduling_type = "STRICT_PACK" /\ ~SomeNodeHoldsAll("total")

StrictSpreadImpossible ==
    /\ scheduling_type = "STRICT_SPREAD"
    /\ Len(required_resources_list) > Cardinality(candidate_nodes)

\* C7 as stated: INFEASIBLE is returned only when no candidate passes the
\* filter or when STRICT_PACK finds no node of the cluster for the aggregate;
\* every other call without a full assignment returns FAILED.
C7_InfeasibleTwoCases ==
    Returned /\ result.status # "SUCCESS" =>
        IF NoCandidatePasses \/ StrictPackImpossible
        THEN result.status \in {"FAILED", "INFEASIBLE"}
        ELSE result.status = "FAILED"

\* C7 amended: INFEASIBLE is returned only when no candidate passes the
\* filter, when STRICT_PACK finds no node of the cluster for the aggregate, or
\* when STRICT_SPREAD is given more bundles than there are candidates; every
\* other call without a full assignment returns FAILED.
C7_InfeasibleThreeCases ==
    Returned /\ result.status # "SUCCESS" =>
        IF NoCandidatePasses \/ StrictPackImpossible \/ StrictSpreadImpossible
        THEN result.status \in {"FAILED", "INFEASIBLE"}
        ELSE result.status = "FAILED"

\* C7 witness: STRICT_SPREAD with candidates and more bundles than candidates
\* returns INFEASIBLE.
C7_Witness ==
    /\ Returned
    /\ result.status = "INFEASIBLE"
    /\ ~NoCandidatePasses
    /\ StrictSpreadImpossible

\* C8: when no node passes the filter, the call returns INFEASIBLE with no
\* node, whatever the strategy value, without having sorted, scored,
\* acquired or released.
C8_EmptyCandidates ==
    pc # "idle" /\ NoCandidatePasses =>
        /\ Returned
        /\ result = [status |-> "INFEASIBLE", nodes |-> <<>>]
        /\ calls = {}
        /\ deducted = {}
        /\ released = {}
        /\ sorted_index = <<>>

\* C8 witness: PACK of three bundles with a filter that rejects every node.
C8_Witness ==
    /\ Returned
    /\ NoCandidatePasses
    /\ scheduling_type = "PACK"
    /\ Len(required_resources_list) = MaxBundles
    /\ result.status = "INFEASIBLE"

\* The candidates whose available amounts before the call hold all the
\* bundles of the call at once.
HoldingCandidates ==
    {n \in candidate_nodes : HoldsAll(pre_available[n], required_resources_list, "available")}

\* The node PackSchedule chose for the first bundle in priority order, Nil
\* when it found none.
FirstChoice == IF result_nodes = <<>> THEN Nil ELSE result_nodes[1]

\* C11 as stated: when one candidate holds all the bundles of a PACK call at
\* once, the call returns SUCCESS with every bundle on that candidate, and the
\* available amounts of the other candidates are as before the call.
C11_PackOnHoldingNode ==
    /\ Returned
    /\ scheduling_type = "PACK"
    /\ required_resources_list # <<>>
    /\ Cardinality(HoldingCandidates) = 1
    => /\ result.status = "SUCCESS"
       /\ \A k \in 1..Len(result.nodes) : result.nodes[k] \in HoldingCandidates
       /\ \A n \in candidate_nodes \ HoldingCandidates :
             AvailableOf(cluster_resources[n]) = AvailableOf(pre_available[n])

\* C11 amended: when the candidate that GetBestNode returns for the first
\* bundle in priority order holds all the bundles of a PACK call at once, the
\* call returns SUCCESS with every bundle on that candidate, nothing was
\* acquired on another node, and the available amounts of every candidate are
\* as before the call.  A candidate that holds all the bundles but is not the
\* best node of the first bundle need not receive any of them.
C11_PackOnFirstChoice ==
    /\ Returned
    /\ scheduling_type = "PACK"
    /\ required_resources_list # <<>>
    /\ FirstChoice \in HoldingCandidates
    => /\ result.status = "SUCCESS"
       /\ \A k \in 1..Len(result.nodes) : result.nodes[k] = FirstChoice
       /\ \A d \in deducted : d[2] = FirstChoice
       /\ \A n \in candidate_nodes :
             AvailableOf(cluster_resources[n]) = AvailableOf(pre_available[n])

\* C11 witness: PACK of two bundles over two candidates, both bundles on the
\* first choice, which holds them together.
C11_Witness ==
    /\ Returned
    /\ scheduling_type = "PACK"
    /\ Len(required_resources_list) = 2
    /\ Cardinality(candidate_nodes) = 2
    /\ FirstChoice \in HoldingCandidates
    /\ result.status = "SUCCESS"
    /\ Cardinality(deducted) = 2


\* The bundles of rs, in order, whose node in `nodes` is n.
RECURSIVE BundlesOn(_, _, _)
BundlesOn(rs, nodes, n) ==
    IF rs = <<>> THEN <<>>
    ELSE (IF Head(nodes) = n THEN <<Head(rs)>> ELSE <<>>)
         \o BundlesOn(Tail(rs), Tail(nodes), n)

\* C14: in a SUCCESS result, for every node and every predefined or custom
\* dimension, the demands of the caller's bundles that the result assigns to
\* the node sum to no more than the node's available amount before the call;
\* under STRICT_SPREAD each bundle fits its node, and under STRICT_PACK the
\* returned node holds all the bundles together.
C14_SuccessIsFeasible ==
    Returned /\ result.status = "SUCCESS" =>
        /\ \A n \in DOMAIN pre_available :
              HoldsAll(pre_available[n],
                       BundlesOn(required_resources_list, result.nodes, n), "available")
        /\ scheduling_type = "STRICT_SPREAD" =>
              \A k \in 1..Len(result.nodes) :
                  HoldsAll(pre_available[result.nodes[k]],
                           <<required_resources_list[k]>>, "available")
        /\ scheduling_type = "STRICT_PACK" =>
              \A k \in 1..Len(result.nodes) :
                  HoldsAll(pre_available[result.nodes[k]],
                           required_resources_list, "available")

\* C14 witness: a SUCCESS of three bundles, two of them on one node, whose
\* priority order is not the caller's order.
C14_Witness ==
    /\ Returned
    /\ result.status = "SUCCESS"
    /\ Len(result.nodes) = 3
    /\ sorted_index \notin {<<>>, <<1, 2, 3>>}
    /\ \E n \in Nodes : Len(BundlesOn(required_resources_list, result.nodes, n)) = 2

\* The node passes the filter of the call.
PassesFilter(n) ==
    /\ n \in DOMAIN cluster_resources
    /\ node_filter_func.nullptr \/ n \in node_filter_func.accepts

\* C15: every node of a SUCCESS result is in the cluster view and passes the
\* filter when one is given; and at no moment of a call, under any strategy,
\* is a bundle assigned to, or a resource acquired on, a node that does not.
C15_OnlyCandidates ==
    /\ Returned /\ result.status = "SUCCESS" =>
          \A k \in 1..Len(result.nodes) : PassesFilter(result.nodes[k])
    /\ \A i \in 1..Len(result_nodes) :
          result_nodes[i] # Nil => PassesFilter(result_nodes[i])
    /\ \A d \in deducted : PassesFilter(d[2])
    /\ \A n \in selected_nodes \cup candidate_nodes_copy : PassesFilter(n)

\* C15 witness: a STRICT_PACK SUCCESS on a node that passes the filter, while
\* a node the filter rejects scores higher for the aggregate request.
C15_Witness ==
    /\ Returned
    /\ scheduling_type = "STRICT_PACK"
    /\ result.status = "SUCCESS"
    /\ ~node_filter_func.nullptr
    /\ \E n \in DOMAIN cluster_resources \ candidate_nodes :
          Score(Aggregate(required_resources_list), cluster_resources[n])
             > Score(Aggregate(required_resources_list), cluster_resources[result.nodes[1]])

\* Every amount of the view is within its bounds: nothing is over-acquired
\* and nothing is released that was not acquired.
WithinBounds(view) ==
    \A n \in DOMAIN view :
        /\ \A i \in 1..Len(view[n].predefined_resources) :
              /\ 0 <= view[n].predefined_resources[i].available
              /\ view[n].predefined_resources[i].available
                    <= view[n].predefined_resources[i].total
        /\ \A id \in DOMAIN view[n].custom_resources :
              /\ 0 <= view[n].custom_resources[id].available
              /\ view[n].custom_resources[id].available
                    <= view[n].custom_resources[id].total

\* C16: in a call on its own the fatal checks on the ledger never fire.  The
\* only fatal stop is the unsupported strategy, before any ledger call; every
\* acquire issued after GetBestNode returned a node succeeds; every release
\* gives back an acquisition of the call, and the view stays within its
\* bounds.
C16_NoFatalLedgerCheck ==
    /\ pc = "fatal" =>
          /\ scheduling_type \notin SchedulingTypes
          /\ calls = {"SortRequiredResources"}
    /\ released \subseteq deducted
    /\ WithinBounds(cluster_resources)
    /\ \A i \in 1..Len(result_nodes) :
          result_nodes[i] # Nil /\ scheduling_type \in Looping =>
              <<i, result_nodes[i]>> \in deducted

\* C16 witness: a SPREAD call that acquired twice on one node, the second
\* time through the reuse fallback, took all that the node had available of
\* some resource, and released both.
C16_Witness ==
    /\ Returned
    /\ scheduling_type = "SPREAD"
    /\ Cardinality(released) >= 2
    /\ \E d1, d2 \in released :
          /\ d1[1] # d2[1]
          /\ d1[2] = d2[2]
          /\ sorted_resources[d1[1]].predefined_resources[CPU] > 0
          /\ sorted_resources[d2[1]].predefined_resources[CPU] > 0
          /\ pre_available[d1[2]].predefined_resources[CPU].available
                = sorted_resources[d1[1]].predefined_resources[CPU]
                  + sorted_resources[d2[1]].predefined_resources[CPU]

\* A step of SpreadSchedule's loop that places a bundle.
SpreadPlaces ==
    /\ pc = "SPREAD"
    /\ Len(result_nodes') = Len(result_nodes) + 1

\* What a placing step of SpreadSchedule does: the bundle is the next one in
\* priority order; it goes to an already chosen node only if no node of the
\* pool can satisfy it in the view of that moment, and a node taken from the
\* pool moves to the chosen set.
SpreadPlacesInOrder ==
    SpreadPlaces =>
        LET index == Len(result_nodes')
            node == result_nodes'[index]
            iter == sorted_resources[index]
        IN  /\ deducted' = deducted \cup {<<index, node>>}
            /\ Covers(cluster_resources[node], iter, "available")
            /\ IF node \in selected_nodes
               THEN /\ \A n \in candidate_nodes_copy :
                          Score(iter, cluster_resources[n]) < 0
                    /\ UNCHANGED <<selected_nodes, candidate_nodes_copy>>
               ELSE /\ node \in candidate_nodes_copy
                    /\ selected_nodes' = selected_nodes \cup {node}
                    /\ candidate_nodes_copy' = candidate_nodes_copy \ {node}

\* C17: SPREAD processes the bundles in priority order; a bundle is placed on
\* an already chosen node only if, when it is processed, no node still in the
\* pool can satisfy it; a node chosen from the pool moves to the chosen set;
\* the pool and the chosen set are disjoint and together are the candidates.
C17_SpreadReuseOnlyWhenNeeded ==
    /\ [][SpreadPlacesInOrder]_vars
    /\ [](scheduling_type = "SPREAD" /\ pc \in {"SPREAD", "done"} =>
             /\ candidate_nodes_copy \cap selected_nodes = {}
             /\ candidate_nodes_copy \cup selected_nodes = candidate_nodes
             /\ selected_nodes \subseteq {d[2] : d \in deducted}
             /\ deducted = {<<i, result_nodes[i]>> : i \in 1..Len(result_nodes)})

\* C17 witness: SPREAD placed a second bundle on a chosen node while a node
\* was still in the pool.
C17_Witness ==
    /\ scheduling_type = "SPREAD"
    /\ pc \in {"SPREAD", "done"}
    /\ candidate_nodes_copy # {}
    /\ \E d1, d2 \in deducted : d1[1] # d2[1] /\ d1[2] = d2[2]

\* STRICT_PACK got past its whole-cluster check: there are candidates and
\* some node of the cluster is available for the aggregate request.
WholeClusterCheckPassed ==
    /\ scheduling_type = "STRICT_PACK"
    /\ candidate_nodes # {}
    /\ \E n \in DOMAIN pre_available :
          IsAvailable(pre_available[n], Aggregate(required_resources_list))

\* The nodes the best-node search of STRICT_PACK can return.
StrictPackBestNodes ==
    GetBestNode(pre_available, Aggregate(required_resources_list), candidate_nodes)

\* C18: once the whole-cluster check has passed, STRICT_PACK returns SUCCESS
\* with the best node once per bundle when the search finds a node, and
\* FAILED only when it finds none, for every number of bundles, zero
\* included.
C18_StrictPackDecidedBySearch ==
    Returned /\ WholeClusterCheckPassed =>
        /\ Nil \notin StrictPackBestNodes =>
              /\ result.status = "SUCCESS"
              /\ Len(result.nodes) = Len(required_resources_list)
              /\ \A k \in 1..Len(result.nodes) : result.nodes[k] \in StrictPackBestNodes
        /\ result.status = "FAILED" => StrictPackBestNodes = {Nil}

\* C20: when the available amounts of some candidate before the call hold
\* all the bundles of a PACK call at once, the call returns SUCCESS, on one
\* node or on several.
C20_PackCompleteForOneNode ==
    Returned /\ scheduling_type = "PACK" /\ HoldingCandidates # {} =>
        /\ result.status = "SUCCESS"
        /\ Len(result.nodes) = Len(required_resources_list)
        /\ \A k \in 1..Len(result.nodes) : result.nodes[k] \in candidate_nodes

\* C20 witness: a PACK SUCCESS on two nodes although one candidate holds all
\* the bundles.
C20_Witness ==
    /\ Returned
    /\ scheduling_type = "PACK"
    /\ HoldingCandidates # {}
    /\ result.status = "SUCCESS"
    /\ \E i, j \in 1..Len(result.nodes) : result.nodes[i] # result.nodes[j]

----------------------------------------------------------------------------
(* Termination of Schedule (SpecFair). *)

InLoop == pc \in {"PACK", "SPREAD", "STRICT_SPREAD"}

\* One iteration of PackSchedule's loop that does not break: the loop goes on
\* or the call returns SUCCESS.
PackIterates ==
    /\ pc = "PACK"
    /\ pc' = "PACK" \/ (pc' = "done" /\ result'.status = "SUCCESS")

\* What an iteration of a strategy's loop does to the loop's measure.
LoopShrinks ==
    /\ PackIterates =>
          /\ Len(required_resources_list_copy') < Len(required_resources_list_copy)
          /\ candidate_nodes_copy' \subseteq candidate_nodes_copy
          /\ Cardinality(candidate_nodes_copy') = Cardinality(candidate_nodes_copy) - 1
    /\ pc \in {"SPREAD", "STRICT_SPREAD"} =>
          /\ Len(result_nodes') <= Len(result_nodes) + 1
          /\ pc' = pc => Len(result_nodes') = Len(result_nodes) + 1
          /\ Len(result_nodes') <= Len(sorted_resources)

\* C13: a call with a supported strategy that has entered its loop returns,
\* and a returned call has exactly one of the statuses SUCCESS, FAILED and
\* INFEASIBLE; every iteration of the PACK loop that does not break takes at
\* least one bundle from the queue and one node from the pool, and every
\* iteration of SPREAD and STRICT_SPREAD moves to the next bundle.
C13_Terminates ==
    /\ [](Returned => result.status \in Statuses)
    /\ [](pc # "fatal")
    /\ [][LoopShrinks]_vars
    /\ (InLoop ~> Returned)

\* C13 witness: a PACK call that returned after two iterations of its loop.
C13_Witness ==
    /\ Returned
    /\ scheduling_type = "PACK"
    /\ Cardinality(candidate_nodes \ candidate_nodes_copy) >= 2

----------------------------------------------------------------------------
(* Properties of two calls without a lock (SpecConcurrent). *)

\* The acquisitions of the running call that it has not released.
Outstanding == deducted \ released

\* The view as the running call alone would have left it: the initial view
\* less the outstanding acquisitions of the call.
RECURSIVE ViewLess(_, _)
ViewLess(view, acquired) ==
    IF acquired = {} THEN view
    ELSE LET d == CHOOSE x \in acquired : TRUE
         IN  ViewLess([view EXCEPT ![d[2]] = Adjust(@, sorted_resources[d[1]], -1)],
                      acquired \ {d})

\* The candidates whose available amounts in the initial view hold all the
\* bundles of the running call at once.
InitiallyHolding ==
    {n \in candidate_nodes : HoldsAll(initial_view[n], required_resources_list, "available")}

\* C12: as long as no call was left in the middle of its loop (the calls ran
\* one after the other), the running call started from the initial view, sees
\* the initial view less its own outstanding acquisitions, and returns what
\* the initial view decides: a PACK call whose bundles fit together on a node
\* of the initial view returns SUCCESS.  The witness is the interleaving in
\* which this fails.
C12_SerializedSeesInitialView ==
    ~interleaved /\ pc # "idle" =>
        /\ pre_available = initial_view
        /\ cluster_resources = ViewLess(initial_view, Outstanding)
        /\ pc # "fatal"
        /\ Returned /\ scheduling_type = "PACK" /\ InitiallyHolding # {} =>
              result.status = "SUCCESS"

\* C12 witness: two interleaved calls; the running PACK call, whose bundles
\* fit together on a node of the initial view, started from that view, met
\* the provisional deductions of the other call and returned FAILED.
C12_Witness ==
    /\ interleaved
    /\ Returned
    /\ scheduling_type = "PACK"
    /\ pre_available = initial_view
    /\ InitiallyHolding # {}
    /\ result.status = "FAILED"
    /\ suspended.pc \in Looping
    /\ suspended.deducted # {}

----------------------------------------------------------------------------
(* Properties of LeastResourceScorer::Score (SpecScore). *)

\* The node fails the request in at least one dimension.
FailsRequest(req, node) ==
    \/ Len(req.predefined_resources) > Len(node.predefined_resources)
    \/ \E i \in 1..Len(req.predefined_resources) :
          /\ i <= Len(node.predefined_resources)
          /\ req.predefined_resources[i] > node.predefined_resources[i].available
    \/ \E id \in DOMAIN req.custom_resources :
          \/ id \notin DOMAIN node.custom_resources
          \/ node.custom_resources[id].available < req.custom_resources[id]

\* C9: the score is negative if and only if the node fails the request in at
\* least one dimension; otherwise it is non-negative.
C9_ScoreNegativeIffFails ==
    pc = "scored" =>
        /\ node_score < 0 <=> FailsRequest(required_resources, node_resources)
        /\ ~FailsRequest(required_resources, node_resources) => node_score >= 0

\* C9 witness: a request for exactly what is available in one dimension, on a
\* node that has the requested custom id: not failed, scored non-negative.
C9_Witness ==
    /\ pc = "scored"
    /\ node_score >= 0
    /\ \E i \in 1..Len(required_resources.predefined_resources) :
          /\ required_resources.predefined_resources[i] > 0
          /\ required_resources.predefined_resources[i]
                = node_resources.predefined_resources[i].available
    /\ DOMAIN required_resources.custom_resources # {}

----------------------------------------------------------------------------
(* Properties of SortRequiredResources (SpecSort). *)

\* A bundle's amount of a custom id, looked up in its own map.
OwnCustom(r, id) ==
    IF id \in DOMAIN r.custom_resources THEN r.custom_resources[id] ELSE 0

\* Bundle x requests more of a custom resource than bundle y: at the first
\* id, in ascending order, where their own amounts differ.
MoreCustom(x, y) ==
    LET differ == {id \in DOMAIN x.custom_resources \cup DOMAIN y.custom_resources :
                      OwnCustom(x, id) # OwnCustom(y, id)}
    IN  /\ differ # {}
        /\ LET id == CHOOSE r \in differ : \A q \in differ : r <= q
           IN  OwnCustom(x, id) > OwnCustom(y, id)

\* C10: of two bundles with equal GPU, the one requesting more of a custom
\* resource comes first in the priority order.
C10_CustomPriority ==
    pc = "sorted" =>
        \A i, j \in 1..Len(sorted_index) :
            LET x == required_resources_list[sorted_index[i]]
                y == required_resources_list[sorted_index[j]]
            IN  /\ x.predefined_resources[GPU] = y.predefined_resources[GPU]
                /\ MoreCustom(x, y)
                => i < j

\* Bundle x comes before bundle y in the order of the claim: more GPU, or the
\* same GPU and the same custom amounts and more object-store memory, then
\* memory, then CPU.
SameCustom(x, y) ==
    \A id \in DOMAIN x.custom_resources \cup DOMAIN y.custom_resources :
        OwnCustom(x, id) = OwnCustom(y, id)

ClaimedBefore(x, y) ==
    \/ x.predefined_resources[GPU] > y.predefined_resources[GPU]
    \/ /\ x.predefined_resources[GPU] = y.predefined_resources[GPU]
       /\ SameCustom(x, y)
       /\ ComparePredefined(x, y, <<OBJECT_STORE_MEM, MEM, CPU>>) = "greater"

====
